---- MODULE Spec2Model ----
(***************************************************************************)
(* Expense tracker (src/app.js): an in-memory list of expenses behind      *)
(* three HTTP handlers and two periodic summary jobs.                      *)
(*                                                                         *)
(* JSON values of a request are modelled with their JavaScript type, since *)
(* the handlers' conditions (!x, <=, +, ||, ===) depend on it.  A string   *)
(* is a sequence of one-character strings.  Instants are counted in whole  *)
(* days since 1970-01-01 UTC (the code's unit is the millisecond).         *)
(***************************************************************************)
EXTENDS Integers, Sequences, FiniteSets, TLC

VARIABLES expenses, uuids, op, req, resp, log

vars == <<expenses, uuids, op, req, resp, log>>

\* Largest number of expenses the store is let grow to.
MaxExpenses == 2

-----------------------------------------------------------------------------
\* JavaScript values and the operators the handlers apply to them.

Undefined == [t |-> "undefined", n |-> 0, s |-> <<>>]
NaN == [t |-> "NaN", n |-> 0, s |-> <<>>]
Num(k) == [t |-> "number", n |-> k, s |-> <<>>]
Str(cs) == [t |-> "string", n |-> 0, s |-> cs]

\* The characters of the model, in code-unit order.
Alphabet ==
    <<"-", ".", "0", "1", "2", "3", "4", "5", "6", "7", "8", "9", ":",
      "A", "B", "C", "D", "E", "F", "G", "H", "I", "J", "K", "L", "M",
      "N", "O", "P", "Q", "R", "S", "T", "U", "V", "W", "X", "Y", "Z",
      "a", "b", "c", "d", "e", "f", "g", "h", "i", "j", "k", "l", "m",
      "n", "o", "p", "q", "r", "s", "t", "u", "v", "w", "x", "y", "z">>

Chars == {Alphabet[i] : i \in 1..Len(Alphabet)}

\* The position of each character in that order.
CharCodes == [ch \in Chars |-> CHOOSE i \in 1..Len(Alphabet) : Alphabet[i] = ch]

CharCode(ch) == CharCodes[ch]

Digits == <<"0", "1", "2", "3", "4", "5", "6", "7", "8", "9">>

DigitVals == [ch \in {Digits[i] : i \in 1..10} |-> CharCodes[ch] - CharCodes["0"]]

IsDigit(ch) == ch \in DOMAIN DigitVals

DigitVal(ch) == DigitVals[ch]

\* The lower-case form of each character.
LowerCase ==
    [ch \in Chars |->
        IF CharCodes[ch] \in CharCodes["A"]..CharCodes["Z"]
        THEN Alphabet[CharCodes[ch] + 26] ELSE ch]

\* String.prototype.toLowerCase
toLowerCase(cs) == [i \in 1..Len(cs) |-> LowerCase[cs[i]]]

\* !!v
Truthy(v) ==
    CASE v.t = "undefined" -> FALSE
      [] v.t = "NaN" -> FALSE
      [] v.t = "number" -> v.n # 0
      [] v.t = "string" -> v.s # <<>>

RECURSIVE DigitsToNat(_)
DigitsToNat(cs) ==
    IF cs = <<>> THEN 0
    ELSE 10 * DigitsToNat(SubSeq(cs, 1, Len(cs) - 1)) + DigitVal(cs[Len(cs)])

AllDigits(cs) == cs # <<>> /\ \A i \in 1..Len(cs) : IsDigit(cs[i])

\* ToNumber of a string: "" is 0, an optionally signed run of digits is its
\* value, anything else over the model's alphabet is NaN.
StringToNumber(cs) ==
    IF cs = <<>> THEN Num(0)
    ELSE IF AllDigits(cs) THEN Num(DigitsToNat(cs))
    ELSE IF cs[1] = "-" /\ AllDigits(Tail(cs)) THEN Num(0 - DigitsToNat(Tail(cs)))
    ELSE NaN

ToNumber(v) ==
    CASE v.t = "number" -> v
      [] v.t = "string" -> StringToNumber(v.s)
      [] OTHER -> NaN

RECURSIVE NatToDigits(_)
NatToDigits(k) ==
    IF k < 10 THEN <<Digits[k + 1]>>
    ELSE Append(NatToDigits(k \div 10), Digits[(k % 10) + 1])

\* ToString
ToStr(v) ==
    CASE v.t = "string" -> v.s
      [] v.t = "number" ->
            IF v.n < 0 THEN <<"-">> \o NatToDigits(0 - v.n) ELSE NatToDigits(v.n)
      [] v.t = "NaN" -> <<"N", "a", "N">>
      [] v.t = "undefined" -> <<"u", "n", "d", "e", "f", "i", "n", "e", "d">>

\* a + b: concatenation as soon as one side is a string.
JsAdd(a, b) ==
    IF a.t = "string" \/ b.t = "string" THEN Str(ToStr(a) \o ToStr(b))
    ELSE IF ToNumber(a).t = "NaN" \/ ToNumber(b).t = "NaN" THEN NaN
    ELSE Num(a.n + b.n)

\* a || b
JsOr(a, b) == IF Truthy(a) THEN a ELSE b

RECURSIVE StrLess(_, _)
StrLess(x, y) ==
    IF y = <<>> THEN FALSE
    ELSE IF x = <<>> THEN TRUE
    ELSE IF x[1] = y[1] THEN StrLess(Tail(x), Tail(y))
    ELSE CharCode(x[1]) < CharCode(y[1])

\* a < b: code-unit order when both are strings, numeric otherwise, false
\* when a side is NaN.
JsLT(a, b) ==
    IF a.t = "string" /\ b.t = "string" THEN StrLess(a.s, b.s)
    ELSE /\ ToNumber(a).t = "number"
         /\ ToNumber(b).t = "number"
         /\ ToNumber(a).n < ToNumber(b).n

\* a <= b
JsLE(a, b) ==
    IF a.t = "string" /\ b.t = "string" THEN ~StrLess(b.s, a.s)
    ELSE /\ ToNumber(a).t = "number"
         /\ ToNumber(b).t = "number"
         /\ ToNumber(a).n <= ToNumber(b).n

\* a > b
JsGT(a, b) == JsLT(b, a)

-----------------------------------------------------------------------------
\* Dates.  A Date is [nan, time]: nan for an Invalid Date, time in days.

InvalidDate == [nan |-> TRUE, time |-> 0]
DateOf(d) == [nan |-> FALSE, time |-> d]

IsLeap(y) == (y % 4 = 0 /\ y % 100 # 0) \/ y % 400 = 0

DaysInMonth(y, m) ==
    IF m = 2 THEN (IF IsLeap(y) THEN 29 ELSE 28)
    ELSE IF m \in {4, 6, 9, 11} THEN 30 ELSE 31

\* Days since 1970-01-01 of the civil date y-m-d.
DaysFromCivil(y, m, d) ==
    LET yy == IF m <= 2 THEN y - 1 ELSE y
        era == yy \div 400
        yoe == yy - era * 400
        mp == IF m > 2 THEN m - 3 ELSE m + 9
        doy == (153 * mp + 2) \div 5 + d - 1
        doe == yoe * 365 + yoe \div 4 - yoe \div 100 + doy
    IN  era * 146097 + doe - 719468

\* The civil date <<y, m, d>> of a day count.
CivilFromDays(z) ==
    LET zz == z + 719468
        era == zz \div 146097
        doe == zz - era * 146097
        yoe == (doe - doe \div 1460 + doe \div 36524 - doe \div 146096) \div 365
        doy == doe - (365 * yoe + yoe \div 4 - yoe \div 100)
        mp == (5 * doy + 2) \div 153
        d == doy - (153 * mp + 2) \div 5 + 1
        m == IF mp < 10 THEN mp + 3 ELSE mp - 9
        y == yoe + era * 400
    IN  <<IF m <= 2 THEN y + 1 ELSE y, m, d>>

MidnightUTC == <<"T", "0", "0", ":", "0", "0", ":", "0", "0", ".", "0", "0", "0", "Z">>

\* YYYY-MM-DD
IsDateOnly(cs) ==
    /\ Len(cs) = 10
    /\ cs[5] = "-" /\ cs[8] = "-"
    /\ \A i \in {1, 2, 3, 4, 6, 7, 9, 10} : IsDigit(cs[i])

\* Date.parse of the ISO forms: a date alone, or a date at midnight UTC.
ParseString(cs) ==
    LET head == SubSeq(cs, 1, 10)
        y == DigitsToNat(SubSeq(cs, 1, 4))
        m == DigitsToNat(SubSeq(cs, 6, 7))
        d == DigitsToNat(SubSeq(cs, 9, 10))
    IN  IF /\ Len(cs) \in {10, 24}
           /\ IsDateOnly(head)
           /\ Len(cs) = 24 => SubSeq(cs, 11, 24) = MidnightUTC
           /\ m \in 1..12
           /\ d \in 1..DaysInMonth(y, m)
        THEN DateOf(DaysFromCivil(y, m, d))
        ELSE InvalidDate

\* new Date(v)
NewDate(v) ==
    CASE v.t = "string" -> ParseString(v.s)
      [] v.t = "number" -> DateOf(v.n)
      [] OTHER -> InvalidDate

Pad(k, width) ==
    LET ds == NatToDigits(k)
    IN  [i \in 1..(width - Len(ds)) |-> "0"] \o ds

\* Date.prototype.toISOString of a valid Date
toISOString(date) ==
    LET c == CivilFromDays(date.time)
    IN  Str(Pad(c[1], 4) \o <<"-">> \o Pad(c[2], 2) \o <<"-">> \o Pad(c[3], 2)
            \o MidnightUTC)

\* date >= other, on Dates
DateGE(a, b) == ~a.nan /\ ~b.nan /\ a.time >= b.time

\* date <= other, on Dates
DateLE(a, b) == ~a.nan /\ ~b.nan /\ a.time <= b.time

-----------------------------------------------------------------------------
\* The program's constants and the values requests are drawn from.

sFood == <<"F", "o", "o", "d">>
sTravel == <<"T", "r", "a", "v", "e", "l">>
sEntertainment == <<"E", "n", "t", "e", "r", "t", "a", "i", "n", "m", "e", "n", "t">>
sBills == <<"B", "i", "l", "l", "s">>
sShopping == <<"S", "h", "o", "p", "p", "i", "n", "g">>
sNone == <<"N", "o", "n", "e">>

predefinedCategories == <<sFood, sTravel, sEntertainment, sBills, sShopping>>

WeekDays == 7
MonthDays == 30

RequiredMsg == "Category, amount, and date are required"
CategoryMsg == "Invalid category"
AmountMsg == "Amount must be positive"
DateMsg == "Invalid date format"

sJan10 == <<"2", "0", "2", "4", "-", "0", "1", "-", "1", "0">>
sFeb05 == <<"2", "0", "2", "4", "-", "0", "2", "-", "0", "5">>
sNotADate == <<"s", "o", "o", "n">>

\* category of a POST body: absent, the empty string, canonical and lower-case
\* spellings, an unknown name, and a number.
BodyCategories ==
    {Undefined, Str(sFood), Str(toLowerCase(sFood)), Str(sTravel),
     Str(<<"P", "e", "t", "s">>), Num(5)}

\* amount of a POST body: absent, zero, negative, positive, and strings.
BodyAmounts ==
    {Undefined, Num(0), Num(-5), Num(5), Str(<<"-", "5">>), Str(<<"a", "b", "c">>)}

\* date of a POST body: absent, two spellings of one instant, a later
\* instant, and text that is no date.
BodyDates ==
    {Undefined, Str(sJan10), Str(sJan10 \o MidnightUTC), Str(sFeb05), Str(sNotADate)}

BodyDescriptions == {Undefined, Str(<<"t", "e", "a">>)}

\* Query parameters are strings, or absent.
QueryCategories == {Undefined, Str(<<>>), Str(sFood)}
QueryStartDates == {Undefined, Str(sJan10), Str(sFeb05)}
QueryEndDates == {Undefined, Str(sJan10), Str(sFeb05), Str(sNotADate)}

\* Readings of the clock by a summary job: 2024-01-17 and 2024-02-17.
Todays == {DaysFromCivil(2024, 1, 17), DaysFromCivil(2024, 2, 17)}

-----------------------------------------------------------------------------
\* Shapes of the observable outputs.

NoEntry == [category |-> <<>>, total |-> Undefined]
NoFields == [k \in {} |-> Undefined]

NoReq ==
    [category |-> Undefined, amount |-> Undefined, date |-> Undefined,
     description |-> Undefined, startDate |-> Undefined, endDate |-> Undefined]

NoResp ==
    [status |-> 0, error |-> "", data |-> <<>>, analysis |-> <<>>,
     highestSpending |-> NoEntry]

NoLog == [label |-> "", today |-> 0, total |-> Undefined, categories |-> NoFields]

Body(category, amount, date, description) ==
    [NoReq EXCEPT !.category = category, !.amount = amount, !.date = date,
                  !.description = description]

Query(category, startDate, endDate) ==
    [NoReq EXCEPT !.category = category, !.startDate = startDate,
                  !.endDate = endDate]

\* res.status(code).json({status: "error", error: msg})
ErrorResp(code, msg) == [NoResp EXCEPT !.status = code, !.error = msg]

\* res.status(code).json({status: "success", data: list})
DataResp(code, list) == [NoResp EXCEPT !.status = code, !.data = list]

-----------------------------------------------------------------------------
\* POST /expenses

\* An identifier generated once and reused.
uuidv4Once(k) == 1

\* uuidv4(): the k-th identifier generated is fresh.
uuidv4(k) == k

\* The required-field test without its amount operand.
MissingFieldNoAmount(category, amount, date) ==
    ~Truthy(category) \/ ~Truthy(date)

\* !category || !amount || !date
MissingField(category, amount, date) ==
    ~Truthy(category) \/ ~Truthy(amount) \/ ~Truthy(date)

\* category.toLowerCase is not a function unless category is a string; the
\* call then throws a TypeError.
ToLowerCaseThrows(category) == category.t # "string"

\* predefinedCategories.some(cat => cat.toLowerCase() === category.toLowerCase())
KnownCategory(category) ==
    \E i \in 1..Len(predefinedCategories) :
        toLowerCase(predefinedCategories[i]) = toLowerCase(category.s)

\* amount <= 0
NonPositive(amount) == JsLE(amount, Num(0))

\* The record without the default of its description.
newExpenseNoDefault(id, category, amount, parsedDate, description) ==
    [id |-> id,
     category |-> category,
     amount |-> amount,
     date |-> toISOString(parsedDate),
     description |-> description]

newExpense(id, category, amount, parsedDate, description) ==
    [id |-> id,
     category |-> category,
     amount |-> amount,
     date |-> toISOString(parsedDate),
     description |-> JsOr(description, Str(<<>>))]

\* The handler pushing the record before it has validated the date.
PostOutcomePushFirst(list, id, category, amount, date, description) ==
    IF MissingField(category, amount, date)
    THEN [resp |-> ErrorResp(400, RequiredMsg), expenses |-> list]
    ELSE IF ToLowerCaseThrows(category)
    THEN [resp |-> ErrorResp(500, ""), expenses |-> list]
    ELSE IF ~KnownCategory(category)
    THEN [resp |-> ErrorResp(400, CategoryMsg), expenses |-> list]
    ELSE IF NonPositive(amount)
    THEN [resp |-> ErrorResp(400, AmountMsg), expenses |-> list]
    ELSE LET e == newExpense(id, category, amount,
                             IF NewDate(date).nan THEN DateOf(0) ELSE NewDate(date),
                             description)
         IN  IF NewDate(date).nan
             THEN [resp |-> ErrorResp(400, DateMsg), expenses |-> Append(list, e)]
             ELSE [resp |-> DataResp(201, <<e>>), expenses |-> Append(list, e)]

\* The handler's outcome on a body: the response, and the store after it.
\* An uncaught TypeError is answered 500 by the framework.
PostOutcome(list, id, category, amount, date, description) ==
    IF MissingField(category, amount, date)
    THEN [resp |-> ErrorResp(400, RequiredMsg), expenses |-> list]
    ELSE IF ToLowerCaseThrows(category)
    THEN [resp |-> ErrorResp(500, ""), expenses |-> list]
    ELSE IF ~KnownCategory(category)
    THEN [resp |-> ErrorResp(400, CategoryMsg), expenses |-> list]
    ELSE IF NonPositive(amount)
    THEN [resp |-> ErrorResp(400, AmountMsg), expenses |-> list]
    ELSE IF NewDate(date).nan
    THEN [resp |-> ErrorResp(400, DateMsg), expenses |-> list]
    ELSE LET e == newExpense(id, category, amount, NewDate(date), description)
         IN  [resp |-> DataResp(201, <<e>>), expenses |-> Append(list, e)]

PostExpense ==
    /\ op = "idle"
    /\ Len(expenses) < MaxExpenses
    /\ \E category \in BodyCategories, amount \in BodyAmounts,
          date \in BodyDates, description \in BodyDescriptions :
          LET out == PostOutcome(expenses, uuidv4(uuids + 1), category, amount,
                                 date, description)
          IN  /\ op' = "POST /expenses"
              /\ req' = Body(category, amount, date, description)
              /\ resp' = out.resp
              /\ expenses' = out.expenses
              /\ uuids' = IF out.resp.status = 201 THEN uuids + 1 ELSE uuids
              /\ log' = NoLog

-----------------------------------------------------------------------------
\* GET /expenses

\* filteredExpenses.filter(exp => exp.category === category)
CategoryFilter(list, category) ==
    SelectSeq(list, LAMBDA exp : exp.category = category)

\* The date filter with its upper bound exclusive.
DateRangeFilterExclusive(list, start, end) ==
    SelectSeq(list, LAMBDA exp :
        /\ DateGE(NewDate(exp.date), start)
        /\ DateLE(NewDate(exp.date), end)
        /\ NewDate(exp.date).time # end.time)

\* filteredExpenses.filter(exp => expDate >= start && expDate <= end)
DateRangeFilter(list, start, end) ==
    SelectSeq(list, LAMBDA exp :
        /\ DateGE(NewDate(exp.date), start)
        /\ DateLE(NewDate(exp.date), end))

GetResult(list, category, startDate, endDate) ==
    LET byCategory == IF Truthy(category) THEN CategoryFilter(list, category)
                      ELSE list
    IN  IF Truthy(startDate) /\ Truthy(endDate)
        THEN DateRangeFilter(byCategory, NewDate(startDate), NewDate(endDate))
        ELSE byCategory

GetExpenses ==
    /\ op = "idle"
    /\ \E category \in QueryCategories, startDate \in QueryStartDates,
          endDate \in QueryEndDates :
          /\ op' = "GET /expenses"
          /\ req' = Query(category, startDate, endDate)
          /\ resp' = DataResp(200, GetResult(expenses, category, startDate, endDate))
          /\ log' = NoLog
          /\ UNCHANGED <<expenses, uuids>>

-----------------------------------------------------------------------------
\* GET /expenses/analysis

\* list.reduce((sum, exp) => sum + exp.amount, sum0)
RECURSIVE SumAmounts(_, _)
SumAmounts(list, sum) ==
    IF list = <<>> THEN sum
    ELSE SumAmounts(Tail(list), JsAdd(sum, Head(list).amount))

\* predefinedCategories.map(category => ({category, total}))
Analysis(list) ==
    [i \in 1..Len(predefinedCategories) |->
        [category |-> predefinedCategories[i],
         total |-> SumAmounts(CategoryFilter(list, Str(predefinedCategories[i])),
                              Num(0))]]

\* analysis.reduce((max, curr) => (curr.total > max.total ? curr : max), max0)
RECURSIVE HighestSpending(_, _)
HighestSpending(analysis, max) ==
    IF analysis = <<>> THEN max
    ELSE HighestSpending(Tail(analysis),
             IF JsGT(Head(analysis).total, max.total) THEN Head(analysis) ELSE max)

NoneEntry == [category |-> sNone, total |-> Num(0)]

GetAnalysis ==
    /\ op = "idle"
    /\ op' = "GET /expenses/analysis"
    /\ req' = NoReq
    /\ resp' = [NoResp EXCEPT !.status = 200,
                              !.analysis = Analysis(expenses),
                              !.highestSpending =
                                  HighestSpending(Analysis(expenses), NoneEntry)]
    /\ log' = NoLog
    /\ UNCHANGED <<expenses, uuids>>

-----------------------------------------------------------------------------
\* The periodic summaries

\* date >= pastDate, pastDate being `days` days before the clock's reading
isDateInLastNDays(date, days, today) == DateGE(date, DateOf(today - days))

Lookup(categories, key) ==
    IF key \in DOMAIN categories THEN categories[key] ELSE Undefined

\* The reduce callback of a summary job.
Accumulate(summary, exp, days, today) ==
    IF isDateInLastNDays(NewDate(exp.date), days, today)
    THEN [total |-> JsAdd(summary.total, exp.amount),
          categories |->
              [k \in DOMAIN summary.categories \cup {exp.category.s} |->
                  IF k = exp.category.s
                  THEN JsAdd(JsOr(Lookup(summary.categories, k), Num(0)), exp.amount)
                  ELSE summary.categories[k]]]
    ELSE summary

\* expenses.reduce(callback, {total: 0, categories: {}})
RECURSIVE Summarize(_, _, _, _)
Summarize(list, summary, days, today) ==
    IF list = <<>> THEN summary
    ELSE Summarize(Tail(list), Accumulate(summary, Head(list), days, today),
                   days, today)

Summary(list, days, today) ==
    Summarize(list, [total |-> Num(0), categories |-> NoFields], days, today)

Logged(label, list, days, today) ==
    [label |-> label, today |-> today,
     total |-> Summary(list, days, today).total,
     categories |-> Summary(list, days, today).categories]

WeeklySummaryJob ==
    /\ op = "idle"
    /\ \E today \in Todays :
          /\ op' = "weekly summary"
          /\ log' = Logged("Weekly Summary:", expenses, WeekDays, today)
          /\ req' = NoReq
          /\ resp' = NoResp
          /\ UNCHANGED <<expenses, uuids>>

MonthlySummaryJob ==
    /\ op = "idle"
    /\ \E today \in Todays :
          /\ op' = "monthly summary"
          /\ log' = Logged("Monthly Summary:", expenses, MonthDays, today)
          /\ req' = NoReq
          /\ resp' = NoResp
          /\ UNCHANGED <<expenses, uuids>>

-----------------------------------------------------------------------------

\* The handler or job has returned; the event loop takes the next task.
Return ==
    /\ op # "idle"
    /\ op' = "idle"
    /\ req' = NoReq
    /\ resp' = NoResp
    /\ log' = NoLog
    /\ UNCHANGED <<expenses, uuids>>

Init ==
    /\ expenses = <<>>
    /\ uuids = 0
    /\ op = "idle"
    /\ req = NoReq
    /\ resp = NoResp
    /\ log = NoLog

Next ==
    \/ PostExpense
    \/ GetExpenses
    \/ GetAnalysis
    \/ WeeklySummaryJob
    \/ MonthlySummaryJob
    \/ Return

Spec == Init /\ [][Next]_vars

-----------------------------------------------------------------------------
\* Vocabulary of the properties, stated apart from the handlers.

\* The category is a string equal, letter case aside, to a predefined one.
PredefinedName(category) ==
    /\ category.t = "string"
    /\ \E i \in 1..Len(predefinedCategories) :
          toLowerCase(category.s) = toLowerCase(predefinedCategories[i])

PositiveNumber(amount) == amount.t = "number" /\ amount.n > 0

AllNumeric(list) == \A i \in 1..Len(list) : list[i].amount.t = "number"

\* The arithmetic sum of the amounts of a list of expenses with numeric amounts.
RECURSIVE NumericSum(_)
NumericSum(list) ==
    IF list = <<>> THEN 0 ELSE Head(list).amount.n + NumericSum(Tail(list))

\* The sum of a list of expenses: a number when every amount is one.
SumOf(list) == IF AllNumeric(list) THEN Num(NumericSum(list)) ELSE NaN

InCategory(list, name) == SelectSeq(list, LAMBDA exp : exp.category = Str(name))

\* A body that passes the four checks as section 4.1 of the specification
\* states them.
ValidPayload(r) ==
    /\ Truthy(r.category) /\ Truthy(r.amount) /\ Truthy(r.date)
    /\ PredefinedName(r.category)
    /\ PositiveNumber(r.amount)
    /\ ~NewDate(r.date).nan

Accepted == op = "POST /expenses" /\ resp.status = 201

-----------------------------------------------------------------------------
\* C1: every stored expense has an amount that is a number greater than zero.
C1_AmountPositiveNumber ==
    \A i \in 1..Len(expenses) : PositiveNumber(expenses[i].amount)

\* C2, as stated: every POST whose amount is a number <= 0 (0 included) is
\* answered 400 "Amount must be positive".
C2_NonPositiveAnswered ==
    (op = "POST /expenses" /\ req.amount.t = "number" /\ req.amount.n <= 0)
        => (resp.status = 400 /\ resp.error = AmountMsg)

\* C2, amended: a POST whose amount is a number below 0, whose category and
\* date are present and whose category is a predefined name is answered 400
\* "Amount must be positive"; a POST whose amount is 0 is answered 400
\* "Category, amount, and date are required".
C2_NegativeAnswered ==
    op = "POST /expenses" =>
        /\ (/\ req.amount.t = "number" /\ req.amount.n < 0
            /\ Truthy(req.category) /\ Truthy(req.date)
            /\ PredefinedName(req.category))
               => resp = ErrorResp(400, AmountMsg)
        /\ req.amount = Num(0) => resp = ErrorResp(400, RequiredMsg)

\* C2 witness: a negative amount with a valid category and a date was
\* answered by the amount check.
C2_Witness ==
    /\ op = "POST /expenses"
    /\ req.amount = Num(-5)
    /\ PredefinedName(req.category)
    /\ Truthy(req.date)
    /\ resp.error = AmountMsg

\* C3: the analysis lists the five categories in order, each total is the
\* sum of the stored amounts of that category, and the five totals add up to
\* the sum of all stored amounts (stated for stores of numeric amounts).
C3_TotalsCoverStore ==
    (op = "GET /expenses/analysis" /\ AllNumeric(expenses)) =>
        /\ Len(resp.analysis) = 5
        /\ \A i \in 1..5 :
              /\ resp.analysis[i].category = predefinedCategories[i]
              /\ resp.analysis[i].total =
                     Num(NumericSum(InCategory(expenses, predefinedCategories[i])))
        /\ resp.analysis[1].total.n + resp.analysis[2].total.n
               + resp.analysis[3].total.n + resp.analysis[4].total.n
               + resp.analysis[5].total.n = NumericSum(expenses)

\* C4: a POST is answered by the first failing check in the order missing
\* field, category, amount, date, each 400 with its message, and 201 when
\* all four pass.
C4_FirstFailingCheck ==
    op = "POST /expenses" =>
        IF ~Truthy(req.category) \/ ~Truthy(req.amount) \/ ~Truthy(req.date)
        THEN resp = ErrorResp(400, RequiredMsg)
        ELSE IF ~PredefinedName(req.category)
        THEN resp = ErrorResp(400, CategoryMsg)
        ELSE IF ~PositiveNumber(req.amount)
        THEN resp = ErrorResp(400, AmountMsg)
        ELSE IF NewDate(req.date).nan
        THEN resp = ErrorResp(400, DateMsg)
        ELSE resp.status = 201

\* C5: a valid body is answered 201 with a record that carries the body's
\* amount, category and description ("" when omitted) and the body's date
\* as a UTC instant in ISO form, and that record is appended to the store.
C5_ValidPayloadStored ==
    [][(op' = "POST /expenses" /\ ValidPayload(req')) =>
          /\ resp'.status = 201
          /\ Len(resp'.data) = 1
          /\ LET e == resp'.data[1]
             IN  /\ e.amount = req'.amount
                 /\ e.category = req'.category
                 /\ e.description =
                        (IF req'.description = Undefined THEN Str(<<>>)
                         ELSE req'.description)
                 /\ e.date.t = "string"
                 /\ Len(e.date.s) = 24
                 /\ SubSeq(e.date.s, 11, 24) = MidnightUTC
                 /\ NewDate(e.date) = NewDate(req'.date)
                 /\ expenses' = Append(expenses, e)]_vars

\* C5 witness: a second valid body, its date given without a time and its
\* description omitted, has been accepted.
C5_Witness ==
    /\ Accepted
    /\ ValidPayload(req)
    /\ req.date = Str(sJan10)
    /\ req.description = Undefined
    /\ Len(expenses) = 2

\* Whether an expense passes the filters a query activates.
Selected(exp, q) ==
    /\ Truthy(q.category) => exp.category = q.category
    /\ (Truthy(q.startDate) /\ Truthy(q.endDate)) =>
          /\ ~NewDate(q.startDate).nan
          /\ ~NewDate(q.endDate).nan
          /\ NewDate(q.startDate).time <= NewDate(exp.date).time
          /\ NewDate(exp.date).time <= NewDate(q.endDate).time

\* C6: GET /expenses returns the stored expenses that pass every active
\* filter, in insertion order; a lone startDate or endDate filters nothing.
C6_FilteredSubsequence ==
    op = "GET /expenses" =>
        resp.data = SelectSeq(expenses, LAMBDA exp : Selected(exp, req))

\* C6 witness: with both filters active, one of two stored expenses was
\* returned.
C6_Witness ==
    /\ op = "GET /expenses"
    /\ Truthy(req.category) /\ Truthy(req.startDate) /\ Truthy(req.endDate)
    /\ Len(expenses) = 2
    /\ resp.data = <<expenses[2]>>

\* C7: highestSpending is the first of the five entries that no entry
\* exceeds, and {None, 0} exactly when all five totals are zero.
C7_HighestSpending ==
    op = "GET /expenses/analysis" =>
        IF \A i \in 1..5 : resp.analysis[i].total = Num(0)
        THEN resp.highestSpending = NoneEntry
        ELSE \E i \in 1..5 :
                /\ resp.highestSpending = resp.analysis[i]
                /\ \A j \in 1..5 :
                      ~JsGT(resp.analysis[j].total, resp.analysis[i].total)
                /\ \A j \in 1..(i - 1) :
                      JsGT(resp.analysis[i].total, resp.analysis[j].total)

IdsUnique ==
    \A i, j \in 1..Len(expenses) : i # j => expenses[i].id # expenses[j].id

\* C8: the ids of the store are pairwise distinct in every state, and every
\* accepted body, a repeated one included, adds a record under an id no
\* stored record has.
C8_UniqueIds ==
    /\ []IdsUnique
    /\ [][(op' = "POST /expenses" /\ resp'.status = 201) =>
             /\ Len(expenses') = Len(expenses) + 1
             /\ \A i \in 1..Len(expenses) :
                   expenses[i].id # expenses'[Len(expenses')].id]_vars

\* C8 witness: the same body was accepted twice and is stored twice.
C8_Witness ==
    /\ Accepted
    /\ Len(expenses) = 2
    /\ [expenses[1] EXCEPT !.id = 0] = [expenses[2] EXCEPT !.id = 0]
    /\ expenses[1].id # expenses[2].id

\* C9: a step that is not an accepted POST leaves the store as it is, and an
\* accepted POST keeps the stored records, in order, before the new one.
C9_OnlyAddChangesStore ==
    [][IF op' = "POST /expenses" /\ resp'.status = 201
       THEN /\ Len(expenses') = Len(expenses) + 1
            /\ SubSeq(expenses', 1, Len(expenses)) = expenses
       ELSE expenses' = expenses]_vars

\* C9 witness: a rejected POST, on a store that holds an expense.
C9_Witness ==
    /\ op = "POST /expenses"
    /\ resp.status = 400
    /\ resp.error = DateMsg
    /\ Len(expenses) = 1

\* The stored expenses dated at or after `days` days before `today`.
Qualifying(days, today) ==
    SelectSeq(expenses, LAMBDA exp : NewDate(exp.date).time >= today - days)

\* The summary the claim describes, for a window of `days` days.
SummaryClaim(days) ==
    LET q == Qualifying(days, log.today)
        names == {q[i].category.s : i \in 1..Len(q)}
    IN  /\ log.total = SumOf(q)
        /\ DOMAIN log.categories = names
        /\ \A k \in names :
              log.categories[k] =
                  SumOf(SelectSeq(q, LAMBDA exp : exp.category.s = k))

\* C10: each summary's total is the sum of the amounts of the expenses
\* dated at or after now - N days, and its map has a key for exactly the
\* categories of those expenses, each with the sum of its amounts.
C10_SummaryTotals ==
    /\ op = "weekly summary" => SummaryClaim(WeekDays)
    /\ op = "monthly summary" => SummaryClaim(MonthDays)

====
